---------------------------- MODULE Spec2Model ----------------------------
(***************************************************************************)
(* Model of .ycm_extra_conf.py: the single function                        *)
(*                                                                         *)
(*   def FlagsForFile(filename, **kwargs):                                 *)
(*     return { 'flags': [ '-x', 'c', '-Wall', '-Wpointer-arith',          *)
(*                         '-std=gnu99', '-fPIC', '-D_GNU_SOURCE',         *)
(*                         '-I.', '-I' + os.environ['HOME'] + '/include'   *)
(*                       ], }                                              *)
(*                                                                         *)
(* The function body is modelled as the evaluation steps Python performs   *)
(* for the return expression (left to right): the constant tokens are      *)
(* pushed, os.environ['HOME'] is subscripted (KeyError when absent), the   *)
(* two string additions are done, a new list object is built from the      *)
(* nine values, a new dict object is built around it, and it is returned.  *)
(* Lists and dicts live in a heap of mutable objects addressed by          *)
(* reference, so that aliasing between results is observable.              *)
(***************************************************************************)
EXTENDS Naturals, Sequences, FiniteSets

VARIABLES
  environ,   \* os.environ restricted to the key HOME: a dict (function)
  lists,     \* heap of list objects: lists[id] is the list's contents
  dicts,     \* heap of dict objects: dicts[id] maps keys to list ids
  frames,    \* per thread: the activation of FlagsForFile it is running
  hist,      \* the calls completed so far, in order, with what they gave
  touched,   \* indices of hist whose own caller modified its result
  nmut       \* number of caller modifications so far

vars == <<environ, lists, dicts, frames, hist, touched, nmut>>

---------------------------------------------------------------------------
(* Bounds and input sets *)

MaxCalls == 2
MaxMutations == 1

Threads == {"t1", "t2", "t3"}
Homes == {"", "/home/alice", "/home/bob/"}
Filenames == {"foo.c", "lib/bar.h"}
ExtraTokens == {"-O2"}

EmptyDict == [k \in {} |-> ""]

\* What **kwargs can be bound to: the keyword arguments of the call other
\* than filename, which binds to the first parameter.
KwargSets == {EmptyDict, [k \in {"client_data"} |-> "-DX"]}
Environs == {EmptyDict} \cup {[k \in {"HOME"} |-> h] : h \in Homes}

---------------------------------------------------------------------------
(* Heap helpers *)

\* Mutant: one module-level list object is reused by every call.
NewListId_Shared(ls) == 1

\* A list display allocates a new list object on every evaluation.
NewListId(ls) == Len(ls) + 1

\* Mutant: one module-level dict object is reused by every call.
NewDictId_Shared(ds) == 1

\* A dict display allocates a new dict object on every evaluation.
NewDictId(ds) == Len(ds) + 1

Store(heap, id, v) ==
  IF id = Len(heap) + 1 THEN Append(heap, v) ELSE [heap EXCEPT ![id] = v]

---------------------------------------------------------------------------
(* The activation record of FlagsForFile *)

IdleFrame ==
  [pc |-> "idle", filename |-> "", kwargs |-> EmptyDict,
   stack |-> <<>>, ref |-> 0, exc |-> "", env0 |-> EmptyDict]

Enter(filename, kwargs, env) ==
  [pc |-> "load_consts", filename |-> filename, kwargs |-> kwargs,
   stack |-> <<>>, ref |-> 0, exc |-> "", env0 |-> env]

\* The eight literal tokens that precede the HOME-derived one.
FixedTokens ==
  <<"-x", "c", "-Wall", "-Wpointer-arith", "-std=gnu99", "-fPIC",
    "-D_GNU_SOURCE", "-I.">>

Top(s) == s[Len(s)]
Pop(s, n) == SubSeq(s, 1, Len(s) - n)

\* Mutant: the variant without the language-standard token.
OpLoadConsts_NoStd(m) ==
  [m EXCEPT !.frame.stack =
              <<"-x", "c", "-Wall", "-Wpointer-arith", "-fPIC",
                "-D_GNU_SOURCE", "-I.", "-I">>,
            !.frame.pc = "subscr"]

\* Mutant: the language is chosen from the file name's extension.
OpLoadConsts_ByExt(m) ==
  [m EXCEPT !.frame.stack =
              IF m.frame.filename = "lib/bar.h"
              THEN <<"-x", "c-header">> \o SubSeq(FixedTokens, 3, 8) \o <<"-I">>
              ELSE FixedTokens \o <<"-I">>,
            !.frame.pc = "subscr"]

\* Push the literals of the list display up to the operand '-I'.
OpLoadConsts(m) ==
  [m EXCEPT !.frame.stack = FixedTokens \o <<"-I">>,
            !.frame.pc = "subscr"]

\* Mutant: os.environ.get('HOME', '') instead of the subscript.
OpSubscr_Get(m) ==
  [m EXCEPT !.frame.stack =
              Append(@, IF "HOME" \in DOMAIN m.environ
                        THEN m.environ["HOME"] ELSE ""),
            !.frame.pc = "add_home"]

\* Mutant: os.environ.pop('HOME') instead of the subscript.
OpSubscr_Pop(m) ==
  IF "HOME" \in DOMAIN m.environ
  THEN [m EXCEPT !.frame.stack = Append(@, m.environ["HOME"]),
                 !.frame.pc = "add_home",
                 !.environ = EmptyDict]
  ELSE [m EXCEPT !.frame.stack = <<>>,
                 !.frame.exc = "KeyError",
                 !.frame.pc = "raised"]

\* os.environ['HOME']: the value, or KeyError unwinding the frame.
OpSubscr(m) ==
  IF "HOME" \in DOMAIN m.environ
  THEN [m EXCEPT !.frame.stack = Append(@, m.environ["HOME"]),
                 !.frame.pc = "add_home"]
  ELSE [m EXCEPT !.frame.stack = <<>>,
                 !.frame.exc = "KeyError",
                 !.frame.pc = "raised"]

\* Mutant: the '-I' prefix is lost, the token is the bare directory.
OpAddHome_NoPrefix(m) ==
  LET s == m.frame.stack IN
  [m EXCEPT !.frame.stack = Append(Pop(s, 2), Top(s)),
            !.frame.pc = "add_suffix"]

\* '-I' + os.environ['HOME']
OpAddHome(m) ==
  LET s == m.frame.stack IN
  [m EXCEPT !.frame.stack = Append(Pop(s, 2), s[Len(s) - 1] \o Top(s)),
            !.frame.pc = "add_suffix"]

EndsWith(s, suf) ==
  Len(s) >= Len(suf) /\ SubSeq(s, Len(s) - Len(suf) + 1, Len(s)) = suf

\* Mutant: the path is joined the way os.path.join would join it.
OpAddSuffix_Join(m) ==
  LET s == m.frame.stack IN
  [m EXCEPT !.frame.stack =
              Append(Pop(s, 1),
                     IF EndsWith(Top(s), "/")
                     THEN Top(s) \o "include" ELSE Top(s) \o "/include"),
            !.frame.pc = "build_list"]

\* ... + '/include'
OpAddSuffix(m) ==
  LET s == m.frame.stack IN
  [m EXCEPT !.frame.stack = Append(Pop(s, 1), Top(s) \o "/include"),
            !.frame.pc = "build_list"]

\* Mutant: the caller's keyword option values are appended as flags.
OpBuildList_Kwargs(m) ==
  LET id == NewListId(m.lists)
      kw == m.frame.kwargs
      extra == IF "client_data" \in DOMAIN kw
               THEN <<kw["client_data"]>> ELSE <<>> IN
  [m EXCEPT !.lists = Store(@, id, m.frame.stack \o extra),
            !.frame.stack = <<>>,
            !.frame.ref = id,
            !.frame.pc = "build_map"]

\* Mutant: the tokens are added to what the previous call's list holds.
OpBuildList_Accumulate(m) ==
  LET id == NewListId(m.lists)
      old == IF m.lists = <<>> THEN <<>> ELSE m.lists[Len(m.lists)] IN
  [m EXCEPT !.lists = Store(@, id, old \o m.frame.stack),
            !.frame.stack = <<>>,
            !.frame.ref = id,
            !.frame.pc = "build_map"]

\* [ ... ]: a list object holding the values on the stack.
OpBuildList(m) ==
  LET id == NewListId(m.lists) IN
  [m EXCEPT !.lists = Store(@, id, m.frame.stack),
            !.frame.stack = <<>>,
            !.frame.ref = id,
            !.frame.pc = "build_map"]

\* { 'flags': <list> } and return: the frame now holds the dict's id.
OpBuildMap(m) ==
  LET id == NewDictId(m.dicts) IN
  [m EXCEPT !.dicts = Store(@, id, [k \in {"flags"} |-> m.frame.ref]),
            !.frame.ref = id,
            !.frame.pc = "returned"]

Exec(m) ==
  LET pc == m.frame.pc IN
  CASE pc = "load_consts" -> OpLoadConsts(m)
    [] pc = "subscr"      -> OpSubscr(m)
    [] pc = "add_home"    -> OpAddHome(m)
    [] pc = "add_suffix"  -> OpAddSuffix(m)
    [] pc = "build_list"  -> OpBuildList(m)
    [] pc = "build_map"   -> OpBuildMap(m)
    [] OTHER              -> m

Finished(f) == f.pc \in {"returned", "raised"}

RECURSIVE Run(_)
Run(m) == IF Finished(m.frame) THEN m ELSE Run(Exec(m))

Machine(f) == [environ |-> environ, lists |-> lists, dicts |-> dicts, frame |-> f]

\* What the caller receives from a finished activation: the record and a
\* copy of its contents as they were when it was returned, or the exception.
Outcome(m) ==
  LET f == m.frame IN
  IF f.pc = "returned"
  THEN [filename |-> f.filename, kwargs |-> f.kwargs, env |-> f.env0,
        status |-> "returned", exc |-> "",
        ref |-> f.ref, keys |-> DOMAIN m.dicts[f.ref],
        lref |-> m.dicts[f.ref]["flags"],
        flags |-> m.lists[m.dicts[f.ref]["flags"]]]
  ELSE [filename |-> f.filename, kwargs |-> f.kwargs, env |-> f.env0,
        status |-> "raised", exc |-> f.exc,
        ref |-> 0, keys |-> {}, lref |-> 0, flags |-> <<>>]

---------------------------------------------------------------------------
(* Initial state: a process environment with HOME set or not, no calls *)

Init ==
  /\ environ \in Environs
  /\ lists = <<>>
  /\ dicts = <<>>
  /\ frames = [t \in Threads |-> IdleFrame]
  /\ hist = <<>>
  /\ touched = {}
  /\ nmut = 0

---------------------------------------------------------------------------
(* Sequential use: the host calls FlagsForFile, changes the environment   *)
(* between calls, and modifies the results it was given.                  *)

Call(filename, kwargs) ==
  /\ Len(hist) < MaxCalls
  /\ LET m == Run(Machine(Enter(filename, kwargs, environ))) IN
       /\ environ' = m.environ
       /\ lists' = m.lists
       /\ dicts' = m.dicts
       /\ hist' = Append(hist, Outcome(m))
  /\ UNCHANGED <<frames, touched, nmut>>

\* The host changes the environment between calls; a change that no
\* later call of the run would read is left out.
SetHome(h) ==
  /\ Len(hist) < MaxCalls
  /\ environ # [k \in {"HOME"} |-> h]
  /\ environ' = [k \in {"HOME"} |-> h]
  /\ UNCHANGED <<lists, dicts, frames, hist, touched, nmut>>

UnsetHome ==
  /\ Len(hist) < MaxCalls
  /\ "HOME" \in DOMAIN environ
  /\ environ' = EmptyDict
  /\ UNCHANGED <<lists, dicts, frames, hist, touched, nmut>>

Held(i) == i \in 1..Len(hist) /\ hist[i].status = "returned"

Mutate(i) ==
  /\ Held(i)
  /\ nmut < MaxMutations
  /\ nmut' = nmut + 1
  /\ touched' = touched \cup {i}
  /\ UNCHANGED <<environ, frames, hist>>

ListAppend(i, tok) ==
  /\ Mutate(i)
  /\ lists' = [lists EXCEPT ![hist[i].lref] = Append(@, tok)]
  /\ UNCHANGED dicts

ListPop(i) ==
  /\ Mutate(i)
  /\ lists[hist[i].lref] # <<>>
  /\ lists' = [lists EXCEPT ![hist[i].lref] = Pop(@, 1)]
  /\ UNCHANGED dicts

ListReplace(i, tok) ==
  /\ Mutate(i)
  /\ lists[hist[i].lref] # <<>>
  /\ lists' = [lists EXCEPT ![hist[i].lref] = [@ EXCEPT ![1] = tok]]
  /\ UNCHANGED dicts

DictDel(i) ==
  /\ Mutate(i)
  /\ "flags" \in DOMAIN dicts[hist[i].ref]
  /\ dicts' = [dicts EXCEPT ![hist[i].ref] = EmptyDict]
  /\ UNCHANGED lists

Next ==
  \/ \E f \in Filenames, k \in KwargSets : Call(f, k)
  \/ \E h \in Homes : SetHome(h)
  \/ UnsetHome
  \/ \E i \in 1..MaxCalls, tok \in ExtraTokens : ListAppend(i, tok)
  \/ \E i \in 1..MaxCalls : ListPop(i)
  \/ \E i \in 1..MaxCalls, tok \in ExtraTokens : ListReplace(i, tok)
  \/ \E i \in 1..MaxCalls : DictDel(i)

Spec == Init /\ [][Next]_vars

---------------------------------------------------------------------------
(* Concurrent use: threads run FlagsForFile one evaluation step at a time *)
(* in any interleaving, with the environment left alone.                  *)

Started == Len(hist) + Cardinality({t \in Threads : frames[t].pc # "idle"})

Begin(t, filename, kwargs) ==
  /\ frames[t].pc = "idle"
  /\ Started < MaxCalls
  /\ frames' = [frames EXCEPT ![t] = Enter(filename, kwargs, environ)]
  /\ UNCHANGED <<environ, lists, dicts, hist, touched, nmut>>

Step(t) ==
  /\ frames[t].pc # "idle"
  /\ ~Finished(frames[t])
  /\ LET m == Exec(Machine(frames[t])) IN
       /\ environ' = m.environ
       /\ lists' = m.lists
       /\ dicts' = m.dicts
       /\ frames' = [frames EXCEPT ![t] = m.frame]
  /\ UNCHANGED <<hist, touched, nmut>>

Finish(t) ==
  /\ Finished(frames[t])
  /\ hist' = Append(hist, Outcome(Machine(frames[t])))
  /\ frames' = [frames EXCEPT ![t] = IdleFrame]
  /\ UNCHANGED <<environ, lists, dicts, touched, nmut>>

NextThreads ==
  \/ \E t \in Threads, f \in Filenames, k \in KwargSets : Begin(t, f, k)
  \/ \E t \in Threads : Step(t)
  \/ \E t \in Threads : Finish(t)

SpecThreads == Init /\ [][NextThreads]_vars

---------------------------------------------------------------------------
(* Properties *)

HomeSet(e) == "HOME" \in DOMAIN e

Calls == 1..Len(hist)

Range(s) == {s[n] : n \in 1..Len(s)}

Contains(s, sub) ==
  \E p \in 1..(Len(s) + 1 - Len(sub)) : SubSeq(s, p, p + Len(sub) - 1) = sub

ExpectedFlags(h) ==
  <<"-x", "c", "-Wall", "-Wpointer-arith", "-std=gnu99", "-fPIC",
    "-D_GNU_SOURCE", "-I.", "-I" \o h \o "/include">>

\* C1: whenever HOME is set to h, whatever the file path and the keyword
\* options, the call returns a record whose 'flags' value is exactly the
\* nine tokens -x c -Wall -Wpointer-arith -std=gnu99 -fPIC -D_GNU_SOURCE
\* -I. -I<h>/include in this order; with h = /home/alice it ends in
\* -I. -I/home/alice/include.
C1_ExactFlags ==
  \A i \in Calls :
    HomeSet(hist[i].env) =>
      /\ hist[i].status = "returned"
      /\ "flags" \in hist[i].keys
      /\ hist[i].flags = ExpectedFlags(hist[i].env["HOME"])
      /\ hist[i].env["HOME"] = "/home/alice" =>
           SubSeq(hist[i].flags, Len(hist[i].flags) - 1, Len(hist[i].flags))
             = <<"-I.", "-I/home/alice/include">>

C1_Witness ==
  \E i \in Calls :
    /\ hist[i].env = [k \in {"HOME"} |-> "/home/alice"]
    /\ hist[i].filename = "foo.c"
    /\ hist[i].kwargs = EmptyDict
    /\ hist[i].status = "returned"

\* C2: a call made while HOME is unset ends with KeyError raised to the
\* caller and gives no record and no flags, whatever the file path and the
\* keyword options.
C2_UnsetHomeRaises ==
  \A i \in Calls :
    ~HomeSet(hist[i].env) =>
      /\ hist[i].status = "raised"
      /\ hist[i].exc = "KeyError"
      /\ hist[i].ref = 0
      /\ hist[i].keys = {}
      /\ hist[i].flags = <<>>

C2_Witness ==
  \E i, j \in Calls :
    /\ ~HomeSet(hist[i].env) /\ ~HomeSet(hist[j].env)
    /\ hist[i].status = "raised" /\ hist[j].status = "raised"
    /\ hist[i].filename # hist[j].filename
    /\ hist[i].kwargs # hist[j].kwargs

\* C3: two calls made with the same environment and the same keyword
\* options give the same outcome (the same flags, or both fail) whatever
\* their file paths.
C3_PathIndependence ==
  \A i, j \in Calls :
    (hist[i].env = hist[j].env /\ hist[i].kwargs = hist[j].kwargs) =>
      /\ hist[i].status = hist[j].status
      /\ hist[i].exc = hist[j].exc
      /\ hist[i].flags = hist[j].flags

C3_Witness ==
  \E i, j \in Calls :
    /\ hist[i].env = hist[j].env /\ HomeSet(hist[i].env)
    /\ hist[i].kwargs = hist[j].kwargs
    /\ hist[i].filename # hist[j].filename
    /\ hist[i].status = "returned" /\ hist[j].status = "returned"

\* C4: two calls made with the same environment and the same file path
\* give the same flags whatever keyword options each was given.
C4_OptionsIndependence ==
  \A i, j \in Calls :
    (hist[i].env = hist[j].env /\ hist[i].filename = hist[j].filename) =>
      /\ hist[i].status = hist[j].status
      /\ hist[i].keys = hist[j].keys
      /\ hist[i].flags = hist[j].flags

C4_Witness ==
  \E i, j \in Calls :
    /\ hist[i].env = hist[j].env /\ HomeSet(hist[i].env)
    /\ hist[i].filename = hist[j].filename
    /\ hist[i].kwargs = EmptyDict /\ hist[j].kwargs # EmptyDict
    /\ hist[i].status = "returned" /\ hist[j].status = "returned"

\* C5: every returned flag sequence contains -x, c, -Wall, -Wpointer-arith,
\* -fPIC, -D_GNU_SOURCE, -I. and the token -I<HOME>/include.
C5_ContainsTokens ==
  \A i \in Calls :
    hist[i].status = "returned" =>
      /\ HomeSet(hist[i].env)
      /\ {"-x", "c", "-Wall", "-Wpointer-arith", "-fPIC", "-D_GNU_SOURCE",
          "-I.", "-I" \o hist[i].env["HOME"] \o "/include"}
           \subseteq Range(hist[i].flags)

C5_Witness ==
  \E i, j \in Calls :
    /\ hist[i].status = "returned" /\ hist[j].status = "returned"
    /\ hist[i].env # hist[j].env

\* C6: over any run of calls during which HOME keeps one value, every call
\* gives the same outcome as the first of them; two returned sequences
\* obtained under different HOME values differ in the last token only.
C6_Idempotence ==
  \A i, j \in Calls :
    i < j =>
      /\ (\A n \in i..j : hist[n].env = hist[i].env) =>
           /\ hist[j].status = hist[i].status
           /\ hist[j].flags = hist[i].flags
      /\ (/\ hist[i].status = "returned" /\ hist[j].status = "returned"
          /\ hist[i].env # hist[j].env) =>
           /\ Len(hist[i].flags) = Len(hist[j].flags)
           /\ \A n \in 1..Len(hist[i].flags) :
                (hist[i].flags[n] # hist[j].flags[n]) <=> n = Len(hist[i].flags)

C6_Witness ==
  \E i, j \in Calls :
    /\ i < j
    /\ hist[i].status = "returned" /\ hist[j].status = "returned"
    /\ hist[i].env = hist[j].env
    /\ hist[i].filename # hist[j].filename
    /\ hist[i].kwargs # hist[j].kwargs

\* The list object an activation has built so far, 0 when none.
FrameList(t) ==
  CASE frames[t].pc = "build_map" -> frames[t].ref
    [] frames[t].pc = "returned"  -> dicts[frames[t].ref]["flags"]
    [] OTHER                      -> 0

\* C7: with HOME fixed, under every interleaving of the threads' steps each
\* invocation that returns holds a record whose flags are the complete nine
\* tokens for that HOME, and no list or record object is shared between two
\* invocations, running or completed.
C7_ConcurrentSafe ==
  /\ \A t \in Threads :
       frames[t].pc = "returned" =>
         /\ HomeSet(environ)
         /\ DOMAIN dicts[frames[t].ref] = {"flags"}
         /\ lists[FrameList(t)] = ExpectedFlags(environ["HOME"])
  /\ \A t \in Threads :
       (HomeSet(environ) /\ frames[t].pc # "idle") => frames[t].pc # "raised"
  /\ \A i \in Calls :
       HomeSet(environ) =>
         /\ hist[i].status = "returned"
         /\ hist[i].flags = ExpectedFlags(environ["HOME"])
         /\ lists[hist[i].lref] = hist[i].flags
  /\ \A t, u \in Threads :
       (t # u /\ FrameList(t) # 0) => FrameList(t) # FrameList(u)
  /\ \A t, u \in Threads :
       (t # u /\ frames[t].pc = "returned" /\ frames[u].pc = "returned")
         => frames[t].ref # frames[u].ref
  /\ \A t \in Threads : \A i \in Calls :
       /\ FrameList(t) # 0 => FrameList(t) # hist[i].lref
       /\ frames[t].pc = "returned" => frames[t].ref # hist[i].ref
  /\ \A i, j \in Calls :
       (i # j /\ hist[i].status = "returned" /\ hist[j].status = "returned")
         => (hist[i].lref # hist[j].lref /\ hist[i].ref # hist[j].ref)

C7_Witness ==
  \E t, u \in Threads :
    /\ t # u
    /\ frames[t].pc = "returned"
    /\ frames[u].pc = "build_map"
    /\ FrameList(u) < FrameList(t)

\* C8: a call, whether it returns or raises, leaves the process environment
\* as it was and leaves every object that existed before it untouched.
C8_NoSideEffects ==
  [][Len(hist') = Len(hist) + 1 =>
       /\ environ' = environ
       /\ SubSeq(lists', 1, Len(lists)) = lists
       /\ SubSeq(dicts', 1, Len(dicts)) = dicts]_vars

C8_Witness ==
  \E i, j \in Calls :
    /\ i < j
    /\ hist[i].status = "returned" /\ hist[j].status = "raised"

\* C9: every call returns a record and a list that no other call returned;
\* a result its own caller has not modified still holds the flags it was
\* returned with, the template for the HOME value of its call, whatever
\* other callers did to the results they hold.
C9_FreshObjects ==
  /\ \A i \in Calls :
       (Held(i) /\ i \notin touched) =>
         /\ DOMAIN dicts[hist[i].ref] = {"flags"}
         /\ dicts[hist[i].ref]["flags"] = hist[i].lref
         /\ lists[hist[i].lref] = hist[i].flags
         /\ lists[hist[i].lref] = ExpectedFlags(hist[i].env["HOME"])
  /\ \A i, j \in Calls :
       (i # j /\ Held(i) /\ Held(j)) =>
         (hist[i].ref # hist[j].ref /\ hist[i].lref # hist[j].lref)

C9_Witness ==
  \E i, j \in Calls :
    /\ i # j
    /\ i \in touched /\ Held(j) /\ j \notin touched
    /\ lists[hist[i].lref] # hist[i].flags

\* C10: HOME is used as it is: with HOME the empty string the call returns
\* and the last token is -I/include; with HOME ending in / the last token
\* contains //include; for every set HOME the sequence has nine tokens, the
\* first eight of which do not depend on HOME.
C10_HomeVerbatim ==
  \A i \in Calls :
    HomeSet(hist[i].env) =>
      LET h == hist[i].env["HOME"]
          fl == hist[i].flags IN
      /\ hist[i].status = "returned"
      /\ Len(fl) = 9
      /\ h = "" => fl[9] = "-I/include"
      /\ EndsWith(h, "/") => Contains(fl[9], "//include")
      /\ \A j \in Calls :
           hist[j].status = "returned" =>
             SubSeq(hist[j].flags, 1, 8) = SubSeq(fl, 1, 8)

C10_Witness ==
  \E i, j \in Calls :
    /\ hist[i].status = "returned" /\ hist[i].env["HOME"] = ""
    /\ hist[j].status = "returned" /\ hist[j].env["HOME"] = "/home/bob/"

===========================================================================
